---- MODULE Spec2Model ----
(***************************************************************************)
(* A model of src/src/tmx.js: the TMX document (class TMX), its unit list  *)
(* `tu` and unit index `tuhash`, and the operations addTranslationUnit(s), *)
(* addResource, serialize, deserialize/parse, diff and merge.              *)
(*                                                                         *)
(* Translation units are JavaScript objects: a document stores references, *)
(* and diff/merge/addTranslationUnit hand the same object to several       *)
(* documents.  The model therefore keeps a heap of units (`heap`, indexed  *)
(* by object identity) and documents hold identities, not copies.          *)
(* Variants are never mutated after construction, so they are values.      *)
(* Of a unit the model keeps what decides its identity and its variants:   *)
(* source, sourceLocale, datatype and the variant list.                    *)
(***************************************************************************)
EXTENDS Integers, Sequences, FiniteSets, TLC

VARIABLES heap, docs, last, steps

vars == <<heap, docs, last, steps>>

(***************************************************************************)
(* Bounds and input alphabets.                                             *)
(***************************************************************************)
\* the number of calls of a run of Spec
MaxSteps == 2

\* the number of calls of a run of SpecMerge, SpecDiff, SpecWire
MaxCalls == 4

Docs == {"A", "B", "R"}

DocOrder == <<"A", "B", "R">>

\* the JavaScript value `undefined` where it can stand for a string
Undef == "<undefined>"

\* a JavaScript string that is falsy: undefined or empty
Falsy(string) == string = Undef \/ string = ""

\* version numbers, as the parts of their decimal rendering ("" + num).split(".")
V14 == <<"1", "4">>

V1 == <<"1">>

(***************************************************************************)
(* TranslationVariant and TranslationUnit (package ilib-tools-common; the  *)
(* code is not part of src/, the behaviour is the one spec.md section 3    *)
(* and 4.3 state).                                                         *)
(***************************************************************************)
Variant(locale, string) == [locale |-> locale, string |-> string]

\* TranslationVariant.hashKey(): a function of (locale, string)
variantHashKey(v) == <<v.string, v.locale>>

\* TranslationUnit.hashKey(): a function of (source, sourceLocale, datatype)
hashKey(u) == <<u.source, u.sourceLocale, u.datatype>>

\* TranslationUnit.addVariant on a variant list: append unless the key is there
addVariant(variants, v) ==
    IF \E i \in 1..Len(variants) : variantHashKey(variants[i]) = variantHashKey(v)
    THEN variants
    ELSE Append(variants, v)

RECURSIVE addVariants(_, _)
\* TranslationUnit.addVariants: addVariant for each, in order
addVariants(variants, vs) ==
    IF vs = <<>> THEN variants
    ELSE addVariants(addVariant(variants, Head(vs)), Tail(vs))

\* new TranslationUnit({source, sourceLocale, datatype}): no variants yet
NewUnit(source, sourceLocale, datatype) ==
    [source |-> source, sourceLocale |-> sourceLocale, datatype |-> datatype,
     variants |-> <<>>]

VariantKeys(variants) == {variantHashKey(variants[i]) : i \in 1..Len(variants)}

(***************************************************************************)
(* The TMX constructor.                                                    *)
(***************************************************************************)
\* new TMX(options): adminLocale is read from sourceLocale before the options
\* are applied; tu and tuhash start empty
NewTMX(sourceLocale, version, segmentation) ==
    [version |-> version,
     properties |-> [datatype |-> "unknown",
                     segtype |-> IF segmentation \in {"paragraph", "sentence"}
                                 THEN segmentation ELSE "paragraph"],
     sourceLocale |-> sourceLocale,
     adminLocale |-> "en",
     tu |-> <<>>,
     tuhash |-> <<>>]

\* new TMX(options) for options [sourceLocale, version, segmentation, segtype,
\* hasProperties, properties]: options.properties, when given, becomes the
\* properties object; a valid options.segmentation is written into it; the
\* headerAttrs loop then writes options.segtype, when truthy, over that
constructTMX(options) ==
    LET made == NewTMX(IF Falsy(options.sourceLocale) THEN "en"
                       ELSE options.sourceLocale,
                       options.version, options.segmentation)
        properties == IF options.hasProperties THEN options.properties
                      ELSE made.properties
        segmented == IF options.segmentation \in {"paragraph", "sentence"}
                     THEN [properties EXCEPT !.segtype = options.segmentation]
                     ELSE properties
    IN [made EXCEPT !.properties =
            IF Falsy(options.segtype) THEN segmented
            ELSE [segmented EXCEPT !.segtype = options.segtype]]

\* TMX.addProperty(property, value)
addProperty(doc, property, value) ==
    [doc EXCEPT !.properties = [@ EXCEPT ![property] = value]]

\* TMX.setProperties(properties)
setProperties(doc, properties) ==
    [doc EXCEPT !.properties = properties]

(***************************************************************************)
(* A program state while a handler runs: st = [heap, docs].                *)
(***************************************************************************)
State(h, d) == [heap |-> h, docs |-> d]

\* allocate a unit object; its identity is Len(heap) after the call
Alloc(st, unit) == [st EXCEPT !.heap = Append(@, unit)]

\* the mutant: always push, never merge
addTranslationUnit_AlwaysPush(st, d, id) ==
    LET key == hashKey(st.heap[id])
    IN [st EXCEPT !.docs[d].tu = Append(@, id),
                  !.docs[d].tuhash = (key :> id) @@ @]

\* the mutant: on a key collision the incoming variants replace the stored ones
addTranslationUnit_Replace(st, d, id) ==
    LET unit == st.heap[id]
        key == hashKey(unit)
        doc == st.docs[d]
    IN IF key \in DOMAIN doc.tuhash
       THEN [st EXCEPT !.heap[doc.tuhash[key]].variants = unit.variants]
       ELSE [st EXCEPT !.docs[d].tu = Append(@, id),
                       !.docs[d].tuhash = (key :> id) @@ @]

\* TMX.addTranslationUnit(unit), unit the object `id`
addTranslationUnit(st, d, id) ==
    LET unit == st.heap[id]
        key == hashKey(unit)
        doc == st.docs[d]
    IN IF key \in DOMAIN doc.tuhash
       THEN \* existing string, so merge in this unit
            [st EXCEPT !.heap[doc.tuhash[key]].variants =
                            addVariants(@, unit.variants)]
       ELSE \* new string
            [st EXCEPT !.docs[d].tu = Append(@, id),
                       !.docs[d].tuhash = (key :> id) @@ @]

RECURSIVE addTranslationUnits(_, _, _)
\* TMX.addTranslationUnits(units): forEach addTranslationUnit
addTranslationUnits(st, d, ids) ==
    IF ids = <<>> THEN st
    ELSE addTranslationUnits(addTranslationUnit(st, d, Head(ids)), d, Tail(ids))

(***************************************************************************)
(* Unreachable unit objects are dropped and the remaining identities are   *)
(* renumbered in order of first reference (documents in DocOrder): object  *)
(* identities carry no meaning beyond which references are equal.          *)
(***************************************************************************)
RECURSIVE Dedup(_, _)
Dedup(seq, seen) ==
    IF seq = <<>> THEN <<>>
    ELSE IF Head(seq) \in seen THEN Dedup(Tail(seq), seen)
    ELSE <<Head(seq)>> \o Dedup(Tail(seq), seen \cup {Head(seq)})

LiveOrder(d) == Dedup(d[DocOrder[1]].tu \o d[DocOrder[2]].tu \o d[DocOrder[3]].tu, {})

Collect(st) ==
    LET order == LiveOrder(st.docs)
        newId(id) == CHOOSE i \in 1..Len(order) : order[i] = id
    IN [heap |-> [i \in 1..Len(order) |-> st.heap[order[i]]],
        docs |-> [d \in Docs |->
                    [st.docs[d] EXCEPT
                        !.tu = [i \in 1..Len(@) |-> newId(@[i])],
                        !.tuhash = [k \in DOMAIN @ |-> newId(@[k])]]]]

(***************************************************************************)
(* Segmentation.                                                           *)
(***************************************************************************)
\* cldrSegmentation.sentenceSplit followed by trim(), on the strings of the model
sentenceSplit(string) ==
    CASE string = "Hi. Bye." -> <<"Hi.", "Bye.">>
      [] string = "Oui. Non." -> <<"Oui.", "Non.">>
      [] OTHER -> <<string>>

\* TMX.segmentString(string, locale)
segmentString(doc, string) ==
    IF Falsy(string) THEN <<>>
    ELSE IF doc.properties.segtype = "paragraph" THEN <<string>>
    ELSE sentenceSplit(string)

(***************************************************************************)
(* addResource.  A resource is a record [type, sourceLocale, targetLocale, *)
(* hasTarget, source, target, datatype]; a plural source or target is the  *)
(* sequence of its <<category, string>> entries in property order; a       *)
(* missing target locale is Undef, a missing target has hasTarget FALSE.   *)
(***************************************************************************)
\* const addTarget = res.getTargetLocale() && res.getTargetLocale() !== this.sourceLocale
addTarget(doc, res) ==
    ~Falsy(res.targetLocale) /\ res.targetLocale # doc.sourceLocale

\* the unit one source segment becomes: the source variant, then the target
\* variant if there is one
segmentUnit(res, segment, withTarget, targetString) ==
    LET u == NewUnit(segment, res.sourceLocale, res.datatype)
        v1 == addVariant(u.variants, Variant(res.sourceLocale, segment))
        v2 == IF withTarget
              THEN addVariant(v1, Variant(res.targetLocale, targetString))
              ELSE v1
    IN [u EXCEPT !.variants = v2]

\* construct the unit and hand it to addTranslationUnit
ingest(st, d, unit) == addTranslationUnit(Alloc(st, unit), d, Len(st.heap) + 1)

RECURSIVE addStringSegments(_, _, _, _, _, _)
\* case "string": sourceSegments.forEach((segment, i) => ...)
addStringSegments(st, d, res, src, tgt, i) ==
    IF i > Len(src) THEN st
    ELSE LET withTarget == /\ addTarget(st.docs[d], res)
                           /\ res.hasTarget /\ ~Falsy(res.target)
                           /\ i <= Len(tgt)
                           /\ ~Falsy(tgt[i])
             unit == segmentUnit(res, src[i], withTarget,
                                 IF withTarget THEN tgt[i] ELSE Undef)
         IN addStringSegments(ingest(st, d, unit), d, res, src, tgt, i + 1)

RECURSIVE addArrayElement(_, _, _, _, _, _, _)
\* case "array": element.forEach((string, j) => ...) for the element at index i;
\* tar is tarArr[i], and hasTar tells whether tarArr has such an element
addArrayElement(st, d, res, element, hasTar, tar, j) ==
    IF j > Len(element) THEN st
    ELSE LET withTarget == addTarget(st.docs[d], res) /\ hasTar /\ j <= Len(tar)
             unit == segmentUnit(res, element[j], withTarget,
                                 IF withTarget THEN tar[j] ELSE Undef)
         IN addArrayElement(ingest(st, d, unit), d, res, element, hasTar, tar, j + 1)

RECURSIVE addArrayElements(_, _, _, _, _, _)
\* case "array": srcArr.forEach((element, i) => ...); the result is
\* [st, raised]: reading tarArr[i] of an undefined tarArr raises a TypeError
addArrayElements(st, d, res, srcArr, tarArr, i) ==
    IF i > Len(srcArr) THEN [st |-> st, raised |-> FALSE]
    ELSE IF srcArr[i] # <<>> /\ addTarget(st.docs[d], res) /\ ~res.hasTarget
    THEN [st |-> st, raised |-> TRUE]
    ELSE LET hasTar == res.hasTarget /\ i <= Len(tarArr)
             next == addArrayElement(st, d, res, srcArr[i], hasTar,
                                     IF hasTar THEN tarArr[i] ELSE <<>>, 1)
         IN addArrayElements(next, d, res, srcArr, tarArr, i + 1)

\* objectMap(plurals, string => this.segmentString(string, locale))
segmentPlurals(doc, plurals) ==
    [k \in 1..Len(plurals) |->
        [category |-> plurals[k][1], segments |-> segmentString(doc, plurals[k][2])]]

HasCategory(plurals, category) ==
    \E k \in 1..Len(plurals) : plurals[k].category = category

CategorySegments(plurals, category) ==
    plurals[CHOOSE k \in 1..Len(plurals) : plurals[k].category = category].segments

RECURSIVE addPluralSegments(_, _, _, _, _, _, _)
\* case "plural": srcPlurals[category].forEach((string, i) => ...); ctx is
\* [st, other]: `other` holds the identities of the units built for "other"
addPluralSegments(ctx, d, res, category, segs, tarPlurals, i) ==
    IF i > Len(segs) THEN ctx
    ELSE LET st == ctx.st
             withTarget == /\ addTarget(st.docs[d], res)
                           /\ res.hasTarget
                           /\ HasCategory(tarPlurals, category)
             tar == IF withTarget THEN CategorySegments(tarPlurals, category) ELSE <<>>
             unit == segmentUnit(res, segs[i], withTarget,
                                 IF i <= Len(tar) THEN tar[i] ELSE Undef)
             id == Len(st.heap) + 1
             next == [st |-> ingest(st, d, unit),
                      other |-> IF category = "other"
                                THEN Append(ctx.other, id) ELSE ctx.other]
         IN addPluralSegments(next, d, res, category, segs, tarPlurals, i + 1)

RECURSIVE addPluralCategories(_, _, _, _, _, _)
\* for (let category in srcPlurals) ...
addPluralCategories(ctx, d, res, srcPlurals, tarPlurals, k) ==
    IF k > Len(srcPlurals) THEN ctx
    ELSE addPluralCategories(
            addPluralSegments(ctx, d, res, srcPlurals[k].category,
                              srcPlurals[k].segments, tarPlurals, 1),
            d, res, srcPlurals, tarPlurals, k + 1)

RECURSIVE addExtraSegments(_, _, _, _, _)
\* tarPlurals[category].forEach((string, i) => other[i].addVariant(...)); the
\* result is [st, raised]: other[i] undefined raises a TypeError
addExtraSegments(st, other, res, segs, i) ==
    IF i > Len(segs) THEN [st |-> st, raised |-> FALSE]
    ELSE IF i > Len(other) THEN [st |-> st, raised |-> TRUE]
    ELSE addExtraSegments(
            [st EXCEPT !.heap[other[i]].variants =
                            addVariant(@, Variant(res.targetLocale, segs[i]))],
            other, res, segs, i + 1)

RECURSIVE addExtraCategories(_, _, _, _, _, _)
\* for (let category in tarPlurals) if (!srcPlurals[category]) ...
addExtraCategories(st, other, res, srcPlurals, tarPlurals, k) ==
    IF k > Len(tarPlurals) THEN [st |-> st, raised |-> FALSE]
    ELSE IF HasCategory(srcPlurals, tarPlurals[k].category)
    THEN addExtraCategories(st, other, res, srcPlurals, tarPlurals, k + 1)
    ELSE LET r == addExtraSegments(st, other, res, tarPlurals[k].segments, 1)
         IN IF r.raised THEN r
            ELSE addExtraCategories(r.st, other, res, srcPlurals, tarPlurals, k + 1)

\* the mutant: no check of the resource's source locale
sourceLocaleMatches_Always(doc, res) == TRUE

\* if (!res || res.getSourceLocale() !== this.sourceLocale) return;
sourceLocaleMatches(doc, res) == res.sourceLocale = doc.sourceLocale

\* TMX.addResource(res): the result is [st, raised]
addResource(st, d, res) ==
    LET doc == st.docs[d]
    IN IF ~sourceLocaleMatches(doc, res) THEN [st |-> st, raised |-> FALSE]
       ELSE CASE res.type = "array" ->
                    LET srcArr == [i \in 1..Len(res.source) |->
                                      segmentString(doc, res.source[i])]
                        tarArr == IF addTarget(doc, res) /\ res.hasTarget
                                  THEN [i \in 1..Len(res.target) |->
                                           segmentString(doc, res.target[i])]
                                  ELSE <<>>
                    IN addArrayElements(st, d, res, srcArr, tarArr, 1)
              [] res.type = "plural" ->
                    LET srcPlurals == segmentPlurals(doc, res.source)
                        tarPlurals == IF res.hasTarget
                                      THEN segmentPlurals(doc, res.target)
                                      ELSE <<>>
                        ctx == addPluralCategories([st |-> st, other |-> <<>>], d, res,
                                                   srcPlurals, tarPlurals, 1)
                    IN IF addTarget(doc, res) /\ res.hasTarget
                       THEN addExtraCategories(ctx.st, ctx.other, res,
                                               srcPlurals, tarPlurals, 1)
                       ELSE [st |-> ctx.st, raised |-> FALSE]
              [] OTHER -> \* default: case "string":
                    LET tgt == IF addTarget(doc, res) /\ res.hasTarget
                               THEN segmentString(doc, res.target) ELSE <<>>
                        src == segmentString(doc, res.source)
                    IN [st |-> addStringSegments(st, d, res, src, tgt, 1),
                        raised |-> FALSE]

(***************************************************************************)
(* The wire tree.  A text is modelled by the compact tree xml-js reads     *)
(* from it: [root, hasAttrs, version, header, tus].  `version` is the root *)
(* attribute as the parts around its ".", <<>> when the attribute is       *)
(* missing; hasAttrs is FALSE when the root element has no attribute at    *)
(* all (xml-js then gives it no _attributes member).  A tu is [srclang,    *)
(* tuvs]; a tuv is [attrs, locale, seg, prop] with attrs one of "none" (no *)
(* attribute), "lang", "xml:lang", "other" (attributes, but neither), and  *)
(* prop one of "none", "typed" (a prop child with a type attribute) and    *)
(* "noattrs" (a prop child without attributes).                            *)
(***************************************************************************)
\* versionString(num)
versionString(num) ==
    <<num[1], IF Len(num) > 1 /\ num[2] # "" THEN num[2] ELSE "0">>

\* serializeTranslationVariant(tv)
serializeTranslationVariant(tv) ==
    [attrs |-> "xml:lang", locale |-> tv.locale, seg |-> tv.string, prop |-> "none"]

\* serializeTranslationUnit(tu), for a unit with at least 2 variants
serializeTranslationUnit(tu) ==
    [srclang |-> tu.sourceLocale,
     tuvs |-> [i \in 1..Len(tu.variants) |-> serializeTranslationVariant(tu.variants[i])]]

\* the mutant: every unit is written, whatever its number of variants
serializable_All(unit) == TRUE

\* the filter of serialize(): return variants.length > 1
serializable(unit) == Len(unit.variants) > 1

RECURSIVE SelectUnits(_, _)
\* this.tu.filter(...).map(unit => serializeTranslationUnit(unit))
SelectUnits(h, ids) ==
    IF ids = <<>> THEN <<>>
    ELSE IF serializable(h[Head(ids)])
    THEN <<serializeTranslationUnit(h[Head(ids)])>> \o SelectUnits(h, Tail(ids))
    ELSE SelectUnits(h, Tail(ids))

\* TMX.serialize(): the tree handed to xmljs.js2xml
serialize(h, doc) ==
    [root |-> "tmx",
     hasAttrs |-> TRUE,
     version |-> versionString(doc.version),
     header |-> [present |-> TRUE,
                 segtype |-> doc.properties.segtype,
                 adminlang |-> doc.adminLocale,
                 srclang |-> doc.sourceLocale,
                 datatype |-> doc.properties.datatype],
     tus |-> SelectUnits(h, doc.tu)]

\* xmljs.xml2js(xmljs.js2xml(tree)): an element with empty text comes back
\* without a _text member
xmlText(tree) ==
    [tree EXCEPT !.tus =
        [i \in 1..Len(@) |->
            [@[i] EXCEPT !.tuvs =
                [j \in 1..Len(@) |->
                    [@[j] EXCEPT !.seg = IF @ = "" THEN Undef ELSE @]]]]]

\* the header part of parse(): attributes that are set overwrite the properties
\* (of the header attributes only segtype and datatype are read again, by
\* segmentString, parse and serialize; srclang and adminlang set the locales)
parseHeader(doc, header) ==
    IF ~header.present THEN doc
    ELSE [doc EXCEPT
            !.properties.segtype = IF Falsy(header.segtype) THEN @ ELSE header.segtype,
            !.properties.datatype = IF Falsy(header.datatype) THEN @ ELSE header.datatype,
            !.sourceLocale = IF Falsy(header.srclang) THEN @ ELSE header.srclang,
            !.adminLocale = IF Falsy(header.adminlang) THEN @ ELSE header.adminlang]

\* (unit._attributes && unit._attributes.srclang) || this.sourceLocale
\*     || this.adminLocale || "en"
unitSourceLocale(doc, unit) ==
    IF ~Falsy(unit.srclang) THEN unit.srclang
    ELSE IF ~Falsy(doc.sourceLocale) THEN doc.sourceLocale
    ELSE IF ~Falsy(doc.adminLocale) THEN doc.adminLocale
    ELSE "en"

RECURSIVE parseVariants(_, _, _)
\* variants.forEach(variant => ...) of parse(): the result is [tu, raised];
\* prop._attributes.type of a prop without attributes raises a TypeError
parseVariants(tu, tuvs, j) ==
    IF j > Len(tuvs) THEN [tu |-> tu, raised |-> FALSE]
    ELSE LET variant == tuvs[j]
             locale == IF variant.attrs \in {"lang", "xml:lang"}
                       THEN variant.locale ELSE Undef
             string == variant.seg
         IN IF variant.prop = "noattrs" THEN [tu |-> tu, raised |-> TRUE]
            ELSE IF ~Falsy(locale) /\ ~Falsy(string)
            THEN LET added == [tu EXCEPT !.variants =
                                            addVariant(@, Variant(locale, string))]
                     next == IF locale = tu.sourceLocale
                             THEN [added EXCEPT !.source = string]
                             ELSE added
                 IN parseVariants(next, tuvs, j + 1)
            ELSE parseVariants(tu, tuvs, j + 1)

RECURSIVE parseUnits(_, _, _, _)
\* for (let i = 0; i < units.length; i++) ... of parse(): [st, raised]
parseUnits(st, d, units, i) ==
    IF i > Len(units) THEN [st |-> st, raised |-> FALSE]
    ELSE LET doc == st.docs[d]
             tu0 == NewUnit(Undef, unitSourceLocale(doc, units[i]),
                            doc.properties.datatype)
             r == parseVariants(tu0, units[i].tuvs, 1)
         IN IF r.raised THEN [st |-> st, raised |-> TRUE]
            ELSE parseUnits(ingest(st, d, r.tu), d, units, i + 1)

\* TMX.parse(tmx)
parse(st, d, tmx) ==
    parseUnits([st EXCEPT !.docs[d] = parseHeader(@, tmx.header)], d, tmx.tus, 1)

\* the version test of deserialize(): _attributes, a version, and it is "1.4"
versionAccepted(json) ==
    json.hasAttrs /\ json.version # <<>> /\ json.version = V14

\* TMX.deserialize(xml), json the tree read from xml: [st, raised, accepted].
\* The error message of the rejected branch reads json.tmx._attributes.version,
\* which raises a TypeError when the root has no attributes.
deserialize(st, d, json) ==
    IF json.root # "tmx"
    THEN [st |-> st, raised |-> FALSE, accepted |-> FALSE]
    ELSE IF ~versionAccepted(json)
    THEN [st |-> st, raised |-> ~json.hasAttrs, accepted |-> FALSE]
    ELSE LET cleared == [st EXCEPT !.docs[d].tu = <<>>, !.docs[d].tuhash = <<>>]
             r == parse(cleared, d, json)
         IN [st |-> r.st, raised |-> r.raised, accepted |-> TRUE]

(***************************************************************************)
(* diff and merge.                                                         *)
(***************************************************************************)
RECURSIVE FilterAbsent(_, _)
\* variants.filter(variant => !hash[variant.hashKey()])
FilterAbsent(variants, keys) ==
    IF variants = <<>> THEN <<>>
    ELSE IF variantHashKey(Head(variants)) \in keys
    THEN FilterAbsent(Tail(variants), keys)
    ELSE <<Head(variants)>> \o FilterAbsent(Tail(variants), keys)

\* the mutant: variants are compared by locale alone
variantDiff_ByLocale(tu1, tu2) ==
    SelectSeq(tu2.variants,
              LAMBDA v : \A i \in 1..Len(tu1.variants) : tu1.variants[i].locale # v.locale)

\* TMX.variantDiff(tu1, tu2): the variants of tu2 whose key is not on tu1
variantDiff(tu1, tu2) == FilterAbsent(tu2.variants, VariantKeys(tu1.variants))

\* the mutant: a shared unit is copied whole into the diff
diffUnit_Whole(tu, variantdiff) == tu

\* the unit diff() builds for a unit of both documents: the source variant,
\* then the diffed variants
diffUnit(tu, variantdiff) ==
    LET newTu == NewUnit(tu.source, tu.sourceLocale, tu.datatype)
    IN [newTu EXCEPT !.variants =
            addVariants(addVariant(@, Variant(tu.sourceLocale, tu.source)), variantdiff)]

RECURSIVE diffUnits(_, _, _, _)
\* other.tu.forEach(tu => ...) of diff(): `this` is document a, the diff is c
diffUnits(st, a, c, ids) ==
    IF ids = <<>> THEN st
    ELSE LET tu == st.heap[Head(ids)]
             hash == hashKey(tu)
             this == st.docs[a]
             next ==
                IF hash \in DOMAIN this.tuhash
                THEN LET variantdiff == variantDiff(st.heap[this.tuhash[hash]], tu)
                     IN IF Len(variantdiff) > 0
                        THEN ingest(st, c, diffUnit(tu, variantdiff))
                        ELSE st
                ELSE addTranslationUnit(st, c, Head(ids))
         IN diffUnits(next, a, c, Tail(ids))

\* new TMX({sourceLocale, version, segmentation, creationtool, creationtoolversion})
\* as diff() and merge() call it
derivedTMX(this) == NewTMX(this.sourceLocale, this.version, this.properties.segtype)

\* TMX.diff(other): this is document a, other is b; the new document is kept in c
diff(st, a, b, c) ==
    diffUnits([st EXCEPT !.docs[c] = derivedTMX(st.docs[a])], a, c, st.docs[b].tu)

\* the mutant: a variant of the right unit replaces the left one of its locale
mergeVariants_Overwrite(left, right) ==
    LET rightLocales == {right[i].locale : i \in 1..Len(right)}
    IN SelectSeq(left, LAMBDA v : v.locale \notin rightLocales) \o right

\* the mutant: only variants in a locale the left unit lacks are appended
mergeVariants_ByLocale(left, right) ==
    left \o SelectSeq(right,
                      LAMBDA v : \A i \in 1..Len(left) : left[i].locale # v.locale)

\* TMX.mergeVariants(left, right) on the variant lists: the list left has after it
mergeVariants(left, right) ==
    addVariants(left, FilterAbsent(right, VariantKeys(left)))

RECURSIVE mergeUnits(_, _, _)
\* tmx.tu.forEach(tu => ...) of merge(): the merged document is c
mergeUnits(st, c, ids) ==
    IF ids = <<>> THEN st
    ELSE LET tu == st.heap[Head(ids)]
             key == hashKey(tu)
             mergetmx == st.docs[c]
             next ==
                IF key \in DOMAIN mergetmx.tuhash
                THEN [st EXCEPT !.heap[mergetmx.tuhash[key]].variants =
                                    mergeVariants(@, tu.variants)]
                ELSE addTranslationUnit(st, c, Head(ids))
         IN mergeUnits(next, c, Tail(ids))

RECURSIVE mergeDocs(_, _, _)
\* tmxs.forEach(tmx => ...) of merge()
mergeDocs(st, c, tmxs) ==
    IF tmxs = <<>> THEN st
    ELSE mergeDocs(mergeUnits(st, c, st.docs[Head(tmxs)].tu), c, Tail(tmxs))

\* mergetmx.addTranslationUnits(this.tu): the unit objects themselves
seedUnits(st, a, c) == addTranslationUnits(st, c, st.docs[a].tu)

\* TMX.merge(tmxs) for a non-empty tmxs: this is document a, the new document
\* is kept in c
merge(st, a, tmxs, c) ==
    mergeDocs(seedUnits([st EXCEPT !.docs[c] = derivedTMX(st.docs[a])], a, c), c, tmxs)

(***************************************************************************)
(* The inputs the operations are called with.                              *)
(***************************************************************************)
Unit(source, datatype, variants) ==
    [source |-> source, sourceLocale |-> "en", datatype |-> datatype,
     variants |-> variants]

\* units a caller constructs and hands to addTranslationUnit
InputUnits ==
    { Unit("Hello", "unknown", <<Variant("en", "Hello"), Variant("fr", "Bonjour")>>),
      Unit("Hello", "unknown", <<Variant("en", "Hello"), Variant("fr", "Salut"),
                                 Variant("de", "Hallo")>>),
      Unit("Hello", "unknown", <<Variant("en", "Hello"), Variant("fr", "Bonjour"),
                                 Variant("de", "Hallo")>>),
      Unit("Hello", "unknown", <<Variant("fr", "Bonjour")>>),
      Unit("Hello", "unknown", <<Variant("fr", "Salut"), Variant("de", "Hallo")>>),
      Unit("Bye", "javascript", <<Variant("en", "Bye")>>),
      Unit("Bye", "javascript", <<Variant("en", "Bye"), Variant("de", "Adieu")>>) }

\* arrays of units handed to addTranslationUnits
InputUnitLists ==
    { <<Unit("Hello", "unknown", <<Variant("en", "Hello")>>),
        Unit("Hello", "unknown", <<Variant("de", "Hallo")>>)>>,
      <<Unit("Bye", "unknown", <<Variant("en", "Bye"), Variant("fr", "Salut")>>),
        Unit("Hello", "unknown", <<Variant("en", "Hello"), Variant("fr", "Salut")>>)>> }

Resource(type, sourceLocale, targetLocale, source, hasTarget, target) ==
    [type |-> type, sourceLocale |-> sourceLocale, targetLocale |-> targetLocale,
     source |-> source, hasTarget |-> hasTarget, target |-> target,
     datatype |-> "javascript"]

InputResources ==
    { Resource("string", "en", "fr", "Hi. Bye.", TRUE, "Oui. Non."),
      Resource("string", "en", Undef, "Hello", FALSE, Undef),
      Resource("string", "fr", "de", "Bonjour", TRUE, "Hallo"),
      Resource("array", "en", "de", <<"Bye", "Hi. Bye.">>, TRUE, <<"Adieu">>),
      Resource("array", "fr", "de", <<"Bonjour">>, TRUE, <<"Hallo">>),
      Resource("plural", "en", "fr", <<<<"one", "Hello">>, <<"other", "Bye">>>>, TRUE,
               <<<<"one", "Bonjour">>, <<"few", "Salut">>, <<"other", "Adieu">>>>),
      Resource("plural", "fr", "de", <<<<"other", "Bonjour">>>>, TRUE,
               <<<<"other", "Hallo">>>>) }

Header(segtype, adminlang, srclang, datatype) ==
    [present |-> TRUE, segtype |-> segtype, adminlang |-> adminlang,
     srclang |-> srclang, datatype |-> datatype]

Tuv(attrs, locale, seg, prop) ==
    [attrs |-> attrs, locale |-> locale, seg |-> seg, prop |-> prop]

Text(hasAttrs, version, header, tus) ==
    [root |-> "tmx", hasAttrs |-> hasAttrs, version |-> version, header |-> header,
     tus |-> tus]

OneTu ==
    <<[srclang |-> "en",
       tuvs |-> <<Tuv("xml:lang", "en", "Hello", "none"),
                  Tuv("lang", "fr", "Bonjour", "typed")>>]>>

\* texts handed to deserialize, besides the ones serialize() produces
InputTexts ==
    { Text(TRUE, <<"1", "4">>, Header("sentence", "en", "fr", "javascript"),
           <<[srclang |-> Undef,
              tuvs |-> <<Tuv("xml:lang", "fr", "Bonjour", "none"),
                         Tuv("none", Undef, "Hallo", "none"),
                         Tuv("lang", "en", "Hello", "none")>>],
             [srclang |-> "en",
              tuvs |-> <<Tuv("lang", "de", "Hallo", "none"),
                         Tuv("other", Undef, "Hello", "none")>>]>>),
      Text(TRUE, <<"1", "4">>, Header("paragraph", "en", "en", "unknown"),
           <<[srclang |-> "en",
              tuvs |-> <<Tuv("xml:lang", "en", "Bye", "none"),
                         Tuv("xml:lang", "fr", "Salut", "noattrs")>>]>>),
      Text(TRUE, <<"1", "0">>, Header("sentence", "fr", "fr", "javascript"), OneTu),
      Text(TRUE, <<>>, Header("sentence", "fr", "fr", "javascript"), OneTu),
      Text(FALSE, <<>>, Header("sentence", "fr", "fr", "javascript"), OneTu),
      [Text(TRUE, <<"1", "4">>, Header("sentence", "fr", "fr", "javascript"), OneTu)
          EXCEPT !.root = "xliff"] }

\* a properties object: a missing member is Undef
Properties(segtype, datatype) == [segtype |-> segtype, datatype |-> datatype]

Options(sourceLocale, version, segmentation, segtype, hasProperties, properties) ==
    [sourceLocale |-> sourceLocale, version |-> version,
     segmentation |-> segmentation, segtype |-> segtype,
     hasProperties |-> hasProperties, properties |-> properties]

\* the options documents are constructed with; absent options are Undef
InputOptions ==
    { Options(Undef, V14, Undef, Undef, FALSE, Properties(Undef, Undef)),
      Options("fr", V14, "sentence", Undef, FALSE, Properties(Undef, Undef)),
      Options("en", V1, "phrase", Undef, TRUE, Properties("block", "javascript")),
      Options("de", V14, "paragraph", "phrase", TRUE, Properties(Undef, Undef)) }

\* the properties addProperty is called with
InputProperties ==
    { <<"segtype", "sentence">>, <<"segtype", "phrase">>, <<"datatype", "javascript">> }

\* the objects setProperties is called with
InputPropertySets ==
    { Properties("paragraph", "javascript"), Properties("block", "unknown"),
      Properties(Undef, Undef) }

\* a text whose header names a segmentation the constructor refuses
BlockText ==
    Text(TRUE, <<"1", "4">>, Header("block", "de", "en", "javascript"), OneTu)

(***************************************************************************)
(* The state machine.  Three documents are constructed: A with no options, *)
(* B for sentence segmentation and version 1, R with no options.  `last`   *)
(* records the call that led to the state, `steps` the calls still to be   *)
(* made.                                                                   *)
(***************************************************************************)
Constructed ==
    /\ heap = <<>>
    /\ docs = [d \in Docs |->
                 IF d = "B" THEN NewTMX("en", V1, "sentence")
                 ELSE NewTMX("en", V14, "paragraph")]
    /\ last = [op |-> "new"]

Init == Constructed /\ steps = MaxSteps

\* the handler is over: unreachable objects go, the call is counted
Done(st, call) ==
    /\ steps > 0
    /\ LET live == Collect(st)
       IN /\ heap' = live.heap
          /\ docs' = live.docs
    /\ last' = call
    /\ steps' = steps - 1

\* d.addTranslationUnit(u) for a unit u the caller has just constructed
AddTranslationUnit(d, u) ==
    Done(ingest(State(heap, docs), d, u),
         [op |-> "addTranslationUnit", doc |-> d, unit |-> u, stored |-> FALSE])

\* d.addTranslationUnit(u) for a unit object u some document already holds
AddStoredUnit(d, id) ==
    Done(addTranslationUnit(State(heap, docs), d, id),
         [op |-> "addTranslationUnit", doc |-> d, unit |-> heap[id], stored |-> TRUE])

\* d.addTranslationUnits(units) for units the caller has just constructed
AddTranslationUnits(d, units) ==
    LET base == Len(heap)
    IN Done(addTranslationUnits(State(heap \o units, docs), d,
                                [i \in 1..Len(units) |-> base + i]),
            [op |-> "addTranslationUnits", doc |-> d, units |-> units])

\* d.addResource(res)
AddResource(d, res) ==
    LET r == addResource(State(heap, docs), d, res)
    IN Done(r.st, [op |-> "addResource", doc |-> d, res |-> res, raised |-> r.raised])

\* d = new TMX(options)
Construct(d, options) ==
    Done(State(heap, [docs EXCEPT ![d] = constructTMX(options)]),
         [op |-> "constructor", doc |-> d, options |-> options])

\* d.addProperty(property, value)
AddProperty(d, property, value) ==
    Done(State(heap, [docs EXCEPT ![d] = addProperty(@, property, value)]),
         [op |-> "addProperty", doc |-> d, property |-> property, value |-> value])

\* d.setProperties(properties)
SetProperties(d, properties) ==
    Done(State(heap, [docs EXCEPT ![d] = setProperties(@, properties)]),
         [op |-> "setProperties", doc |-> d, properties |-> properties])

\* d.serialize()
Serialize(d) ==
    Done(State(heap, docs), [op |-> "serialize", doc |-> d])

\* d.deserialize(text) for a given text
Deserialize(d, json) ==
    LET r == deserialize(State(heap, docs), d, json)
    IN Done(r.st, [op |-> "deserialize", doc |-> d, from |-> "text", json |-> json,
                   accepted |-> r.accepted, raised |-> r.raised])

\* d.deserialize(e.serialize())
Reload(d, e) ==
    LET json == xmlText(serialize(heap, docs[e]))
        r == deserialize(State(heap, docs), d, json)
    IN Done(r.st, [op |-> "deserialize", doc |-> d, from |-> e, json |-> json,
                   accepted |-> r.accepted, raised |-> r.raised])

\* c = a.diff(b)
Diff(a, b, c) ==
    Done(diff(State(heap, docs), a, b, c),
         [op |-> "diff", this |-> a, other |-> b, result |-> c])

\* c = a.merge(tmxs), tmxs not empty
Merge(a, tmxs, c) ==
    Done(merge(State(heap, docs), a, tmxs, c),
         [op |-> "merge", this |-> a, others |-> tmxs, result |-> c])

\* the lists of documents merge is called with when its result is kept in c
MergeLists(c) ==
    {<<x>> : x \in Docs \ {c}} \cup {<<x, y>> : x \in Docs \ {c}, y \in Docs \ {c}}

Next ==
    \/ \E d \in Docs, options \in InputOptions : Construct(d, options)
    \/ \E d \in Docs, p \in InputProperties : AddProperty(d, p[1], p[2])
    \/ \E d \in Docs, properties \in InputPropertySets : SetProperties(d, properties)
    \/ \E d \in Docs, u \in InputUnits : AddTranslationUnit(d, u)
    \/ \E d \in Docs, id \in 1..Len(heap) : AddStoredUnit(d, id)
    \/ \E d \in Docs, units \in InputUnitLists : AddTranslationUnits(d, units)
    \/ \E d \in Docs, res \in InputResources : AddResource(d, res)
    \/ \E d \in Docs : Serialize(d)
    \/ \E d \in Docs, json \in InputTexts : Deserialize(d, json)
    \/ \E d \in Docs, e \in Docs : Reload(d, e)
    \/ \E a \in Docs, b \in Docs : \E c \in Docs \ {a, b} : Diff(a, b, c)
    \/ \E c \in Docs : \E a \in Docs \ {c}, tmxs \in MergeLists(c) : Merge(a, tmxs, c)

\* any sequence of MaxSteps calls, on any of the documents
Spec == Init /\ [][Next]_vars

(***************************************************************************)
(* Longer runs of the calls a group of properties is about.                *)
(***************************************************************************)
InitCalls == Constructed /\ steps = MaxCalls

Built == {"A", "B"}

NextMerge ==
    \/ \E d \in Built, u \in InputUnits : AddTranslationUnit(d, u)
    \/ \E d \in Built, id \in 1..Len(heap) : AddStoredUnit(d, id)
    \/ \E a \in Built, tmxs \in MergeLists("R") : Merge(a, tmxs, "R")

\* units are added to A and B, and R = a.merge(tmxs)
SpecMerge == InitCalls /\ [][NextMerge]_vars

\* the units of InputUnits that hold their source variant
SourcedUnits ==
    {u \in InputUnits :
        Len(u.variants) >= 2 /\ u.variants[1] = Variant(u.sourceLocale, u.source)}

NextDiff ==
    \/ \E d \in Docs, u \in SourcedUnits : AddTranslationUnit(d, u)
    \/ \E d \in Docs, id \in 1..Len(heap) : AddStoredUnit(d, id)
    \/ \E d \in Built, units \in InputUnitLists : AddTranslationUnits(d, units)
    \/ \E a \in Built, b \in Built : Diff(a, b, "R")

\* units are added to A, B and R, and R = a.diff(b)
SpecDiff == InitCalls /\ [][NextDiff]_vars

NextWire ==
    \/ \E u \in InputUnits : AddTranslationUnit("A", u)
    \/ \E res \in InputResources : AddResource("A", res)
    \/ \E d \in Docs : Serialize(d)
    \/ \E d \in {"A", "R"}, json \in InputTexts : Deserialize(d, json)
    \/ \E d \in Docs, e \in Built : Reload(d, e)

\* A is filled, documents are serialized and texts are deserialized
SpecWire == InitCalls /\ [][NextWire]_vars

\* plural resources whose source categories share a string, or lack "other"
PluralResources ==
    { Resource("plural", "en", "fr", <<<<"one", "Bye">>, <<"other", "Bye">>>>, TRUE,
               <<<<"one", "Adieu">>, <<"few", "Salut">>, <<"other", "Adieu">>>>),
      Resource("plural", "en", "de", <<<<"one", "Hi. Bye.">>, <<"other", "Hi. Bye.">>>>,
               TRUE, <<<<"many", "Hallo. Adieu.">>>>) }

\* the units of InputUnits with the data type of the resources
ResourceUnits == {u \in InputUnits : u.datatype = "javascript"}

NextResource ==
    \/ \E d \in Built, u \in ResourceUnits : AddTranslationUnit(d, u)
    \/ \E d \in Built, res \in InputResources : AddResource(d, res)
    \/ \E d \in Built, res \in PluralResources : AddResource(d, res)
    \/ \E json \in InputTexts : Deserialize("A", json)

\* units and resources are added to A and B, and texts are read into A
SpecResource == InitCalls /\ [][NextResource]_vars

NextHeader ==
    \/ \E options \in InputOptions : Construct("A", options)
    \/ \E p \in InputProperties : AddProperty("A", p[1], p[2])
    \/ \E properties \in InputPropertySets : SetProperties("A", properties)
    \/ \E json \in InputTexts \cup {BlockText} : Deserialize("A", json)
    \/ \E res \in InputResources : AddResource("A", res)
    \/ \E d \in {"A", "R"} : Reload(d, "A")

\* A is constructed anew, its properties are set, texts are read into it and
\* resources are added to it
SpecHeader == InitCalls /\ [][NextHeader]_vars

(***************************************************************************)
(* Views of a document used by the properties.                             *)
(***************************************************************************)
\* the units of a document, by content, in list order
UnitsOf(h, doc) == [i \in 1..Len(doc.tu) |-> h[doc.tu[i]]]

\* the keys of the listed units
UnitKeys(h, doc) == {hashKey(h[doc.tu[i]]) : i \in 1..Len(doc.tu)}

\* the keys of the listed units, in list order
KeyList(h, doc) == [i \in 1..Len(doc.tu) |-> hashKey(h[doc.tu[i]])]

\* the first listed unit with key k
UnitWithKey(h, doc, k) ==
    h[doc.tu[CHOOSE i \in 1..Len(doc.tu) :
                /\ hashKey(h[doc.tu[i]]) = k
                /\ \A j \in 1..(i - 1) : hashKey(h[doc.tu[j]]) # k]]

IsPrefix(s, t) == Len(s) <= Len(t) /\ SubSeq(t, 1, Len(s)) = s

NoDuplicateKeys(variants) == Cardinality(VariantKeys(variants)) = Len(variants)

VariantSet(variants) == {variants[i] : i \in 1..Len(variants)}

LocalesOf(variants) == {variants[i].locale : i \in 1..Len(variants)}

Range(seq) == {seq[i] : i \in 1..Len(seq)}

(***************************************************************************)
(* C1.  In every reachable state, for every document (the ones diff and    *)
(* merge return included), tuhash and tu agree: the index keys are the     *)
(* hashKey() values of the listed units, each index entry is the listed    *)
(* unit with that key, and no two listed units have the same key.          *)
(***************************************************************************)
C1_IndexAgreesWithList ==
    \A d \in Docs :
        LET doc == docs[d]
        IN /\ DOMAIN doc.tuhash = UnitKeys(heap, doc)
           /\ \A k \in DOMAIN doc.tuhash :
                 /\ doc.tuhash[k] \in Range(doc.tu)
                 /\ hashKey(heap[doc.tuhash[k]]) = k
           /\ \A i, j \in 1..Len(doc.tu) :
                 i # j => hashKey(heap[doc.tu[i]]) # hashKey(heap[doc.tu[j]])

\* diff or merge has returned a document that holds units
C1_Witness ==
    /\ last.op \in {"diff", "merge"}
    /\ Len(docs[last.result].tu) > 0

(***************************************************************************)
(* C2.  addTranslationUnit(u) with u's key already in the index keeps the  *)
(* unit list (length and order) and every other unit, and changes the      *)
(* stored unit only by appending the variants of u whose key it lacked, in *)
(* u's order; the same call made a second time changes neither size() nor  *)
(* the stored unit's variant keys, which hold no duplicate.                *)
(***************************************************************************)
C2_AddToExistingKeyAppends ==
    [][last'.op = "addTranslationUnit" =>
        LET d == last'.doc
            u == last'.unit
            k == hashKey(u)
        IN /\ k \in UnitKeys(heap, docs[d]) =>
                LET old == UnitWithKey(heap, docs[d], k).variants
                    new == UnitWithKey(heap', docs'[d], k).variants
                IN /\ KeyList(heap', docs'[d]) = KeyList(heap, docs[d])
                   /\ \A i \in 1..Len(docs[d].tu) :
                         hashKey(heap[docs[d].tu[i]]) # k =>
                            heap'[docs'[d].tu[i]] = heap[docs[d].tu[i]]
                   /\ IsPrefix(old, new)
                   /\ SubSeq(new, Len(old) + 1, Len(new)) =
                         SelectSeq(u.variants,
                                   LAMBDA v : variantHashKey(v) \notin VariantKeys(old))
           /\ last = last' =>
                /\ Len(docs'[d].tu) = Len(docs[d].tu)
                /\ VariantKeys(UnitWithKey(heap', docs'[d], k).variants) =
                      VariantKeys(UnitWithKey(heap, docs[d], k).variants)
                /\ NoDuplicateKeys(UnitWithKey(heap', docs'[d], k).variants)
    ]_vars

\* a unit was added whose key was stored: the stored unit holds more than it
C2_Witness ==
    /\ last.op = "addTranslationUnit"
    /\ hashKey(last.unit) \in UnitKeys(heap, docs[last.doc])
    /\ LET stored == UnitWithKey(heap, docs[last.doc], hashKey(last.unit)).variants
       IN /\ Len(stored) > Len(last.unit.variants)
          /\ VariantSet(last.unit.variants) \subseteq VariantSet(stored)
          /\ stored[1] \notin VariantSet(last.unit.variants)

(***************************************************************************)
(* C3.  merge(others) with a non-empty list only reads its inputs: the     *)
(* receiver and every document of others have the same units, with the     *)
(* same variant lists, after the call as before it.                        *)
(***************************************************************************)
C3_MergeOnlyReadsInputs ==
    [][last'.op = "merge" =>
        \A d \in {last'.this} \cup Range(last'.others) :
            UnitsOf(heap', docs'[d]) = UnitsOf(heap, docs[d])
    ]_vars

(***************************************************************************)
(* C4, as claimed.  X.merge([Y]) for a unit key K of both, where Y's unit  *)
(* has a variant in a locale of X's unit with another string and a variant *)
(* in a locale X's unit lacks: K's variants in the result are X's variants *)
(* and the variants of Y in the locales X's unit lacks, so Y's string for  *)
(* the shared locale is not among them.                                    *)
(***************************************************************************)
C4_MergeKeepsOneStringPerLocale ==
    [][(last'.op = "merge" /\ Len(last'.others) = 1) =>
        LET x == docs[last'.this]
            y == docs[last'.others[1]]
        IN \A k \in UnitKeys(heap, x) \cap UnitKeys(heap, y) :
              LET xs == UnitWithKey(heap, x, k).variants
                  ys == UnitWithKey(heap, y, k).variants
                  rs == UnitWithKey(heap', docs'[last'.result], k).variants
              IN (/\ \E v \in VariantSet(ys) :
                        /\ v.locale \in LocalesOf(xs)
                        /\ v \notin VariantSet(xs)
                  /\ \E v \in VariantSet(ys) : v.locale \notin LocalesOf(xs))
                 => VariantSet(rs) =
                      VariantSet(xs) \cup
                      {v \in VariantSet(ys) : v.locale \notin LocalesOf(xs)}
    ]_vars

(***************************************************************************)
(* C4, amended.  In the same case K's variants in the result are X's       *)
(* variants followed by every variant of Y's unit whose (locale, string)   *)
(* key X's unit lacks, the one with the differing string included:         *)
(* X {fr:Bonjour} merged with Y {fr:Salut, de:Hallo} gives                 *)
(* {fr:Bonjour, fr:Salut, de:Hallo}.                                       *)
(***************************************************************************)
C4_MergeAppendsByVariantKey ==
    [][(last'.op = "merge" /\ Len(last'.others) = 1) =>
        LET x == docs[last'.this]
            y == docs[last'.others[1]]
        IN \A k \in UnitKeys(heap, x) \cap UnitKeys(heap, y) :
              LET xs == UnitWithKey(heap, x, k).variants
                  ys == UnitWithKey(heap, y, k).variants
                  rs == UnitWithKey(heap', docs'[last'.result], k).variants
              IN rs = xs \o SelectSeq(ys, LAMBDA v :
                                        variantHashKey(v) \notin VariantKeys(xs))
    ]_vars

\* the merged unit holds X's fr:Bonjour, then Y's fr:Salut and de:Hallo
C4_Witness ==
    /\ last.op = "merge"
    /\ Len(last.others) = 1
    /\ last.others[1] # last.this
    /\ \E i \in 1..Len(docs[last.result].tu) :
          heap[docs[last.result].tu[i]].variants =
              <<Variant("fr", "Bonjour"), Variant("fr", "Salut"), Variant("de", "Hallo")>>

(***************************************************************************)
(* C5.  The document d.merge(others) returns has as unit keys the union of *)
(* the unit keys of d and of all others, each once, and for each key the   *)
(* variant keys of its unit are the union of the variant keys of the units *)
(* with that key in d and others, each once.                               *)
(***************************************************************************)
C5_MergeIsUnion ==
    [][last'.op = "merge" =>
        LET ins == {last'.this} \cup Range(last'.others)
            res == docs'[last'.result]
        IN /\ UnitKeys(heap', res) = UNION {UnitKeys(heap, docs[d]) : d \in ins}
           /\ Cardinality(UnitKeys(heap', res)) = Len(res.tu)
           /\ \A k \in UnitKeys(heap', res) :
                 LET rs == UnitWithKey(heap', res, k).variants
                 IN /\ VariantKeys(rs) =
                          UNION {VariantKeys(UnitWithKey(heap, docs[d], k).variants) :
                                   d \in {e \in ins : k \in UnitKeys(heap, docs[e])}}
                    /\ NoDuplicateKeys(rs)
    ]_vars

\* two different documents were merged into the receiver's units and the
\* result holds a unit with variants from more than one of them
C5_Witness ==
    /\ last.op = "merge"
    /\ Len(last.others) = 2
    /\ last.others[1] # last.others[2]
    /\ \E i \in 1..Len(docs[last.result].tu) :
          Len(heap[docs[last.result].tu[i]].variants) >= 4

(***************************************************************************)
(* C6, as claimed.  When every unit key of A is a key of B and, for each,  *)
(* B's unit has a variant in every locale A's unit has one (the strings    *)
(* may differ), B.diff(A) is empty.                                        *)
(***************************************************************************)
C6_DiffEmptyWhenLocalesCovered ==
    last.op = "diff" =>
        LET this == docs[last.this]
            other == docs[last.other]
        IN (/\ UnitKeys(heap, other) \subseteq UnitKeys(heap, this)
            /\ \A k \in UnitKeys(heap, other) :
                  LocalesOf(UnitWithKey(heap, other, k).variants) \subseteq
                      LocalesOf(UnitWithKey(heap, this, k).variants))
           => Len(docs[last.result].tu) = 0

(***************************************************************************)
(* C6, amended.  B.diff(A) is empty exactly when every unit key of A is a  *)
(* key of B and B's unit has every variant of A's unit with the same       *)
(* (locale, string) key: a variant of A whose string differs from B's for  *)
(* that locale is reported, so A {en:Hello, fr:Bonjour} and                *)
(* B {en:Hello, fr:Salut, de:Hallo} give a B.diff(A) of one unit.          *)
(***************************************************************************)
C6_DiffEmptyWhenVariantKeysCovered ==
    last.op = "diff" =>
        LET this == docs[last.this]
            other == docs[last.other]
        IN (/\ UnitKeys(heap, other) \subseteq UnitKeys(heap, this)
            /\ \A k \in UnitKeys(heap, other) :
                  VariantKeys(UnitWithKey(heap, other, k).variants) \subseteq
                      VariantKeys(UnitWithKey(heap, this, k).variants))
           <=> Len(docs[last.result].tu) = 0

\* B holds more variants of the unit than A, all of A's among them, and
\* B.diff(A) is empty
C6_Witness ==
    /\ last.op = "diff"
    /\ last.this # last.other
    /\ Len(docs[last.other].tu) > 0
    /\ Len(docs[last.result].tu) = 0
    /\ \E k \in UnitKeys(heap, docs[last.other]) :
          /\ k \in UnitKeys(heap, docs[last.this])
          /\ Len(UnitWithKey(heap, docs[last.this], k).variants) >
                Len(UnitWithKey(heap, docs[last.other], k).variants)

(***************************************************************************)
(* C7.  this.diff(other) holds exactly (i) the units of other whose key is *)
(* not in this, and (ii) for each key of both where other's unit has a     *)
(* variant whose key this's unit lacks, one unit with other's source,      *)
(* sourceLocale and datatype, whose variants are the source variant first  *)
(* and then the variants of other's unit whose key this's unit lacks; no   *)
(* other key appears.                                                      *)
(***************************************************************************)
C7_DiffHoldsNewAndChanged ==
    last.op = "diff" =>
        LET this == docs[last.this]
            other == docs[last.other]
            res == docs[last.result]
            fresh == UnitKeys(heap, other) \ UnitKeys(heap, this)
            changed == {k \in UnitKeys(heap, other) \cap UnitKeys(heap, this) :
                          ~(VariantKeys(UnitWithKey(heap, other, k).variants) \subseteq
                              VariantKeys(UnitWithKey(heap, this, k).variants))}
        IN /\ UnitKeys(heap, res) = fresh \cup changed
           /\ Len(res.tu) = Cardinality(fresh \cup changed)
           /\ \A k \in fresh : UnitWithKey(heap, res, k) = UnitWithKey(heap, other, k)
           /\ \A k \in changed :
                 LET o == UnitWithKey(heap, other, k)
                     t == UnitWithKey(heap, this, k)
                     r == UnitWithKey(heap, res, k)
                     src == Variant(o.sourceLocale, o.source)
                 IN /\ r.source = o.source
                    /\ r.sourceLocale = o.sourceLocale
                    /\ r.datatype = o.datatype
                    /\ r.variants[1] = src
                    /\ NoDuplicateKeys(r.variants)
                    /\ VariantSet(r.variants) =
                          {src} \cup {v \in VariantSet(o.variants) :
                                        variantHashKey(v) \notin VariantKeys(t.variants)}

\* the diff holds a unit of each kind, and the changed one leaves out a
\* variant both documents have
C7_Witness ==
    /\ last.op = "diff"
    /\ \E k \in UnitKeys(heap, docs[last.result]) :
          k \notin UnitKeys(heap, docs[last.this])
    /\ \E k \in UnitKeys(heap, docs[last.result]) :
          /\ k \in UnitKeys(heap, docs[last.this])
          /\ Len(UnitWithKey(heap, docs[last.result], k).variants) <
                Len(UnitWithKey(heap, docs[last.other], k).variants) + 1

(***************************************************************************)
(* C8.  For a document d of version 1.4 whose units all have at least 2    *)
(* variants with distinct keys, deserializing serialize(d) gives a         *)
(* document with the unit keys of d and, for each, the variant keys it has *)
(* in d.                                                                   *)
(***************************************************************************)
C8_RoundTripKeepsKeys ==
    [][(last'.op = "deserialize" /\ last'.from \in Docs) =>
        LET d == docs[last'.from]
            back == docs'[last'.doc]
        IN (/\ d.version = V14
            /\ \A i \in 1..Len(d.tu) :
                  /\ Len(heap[d.tu[i]].variants) >= 2
                  /\ NoDuplicateKeys(heap[d.tu[i]].variants))
           => /\ UnitKeys(heap', back) = UnitKeys(heap, d)
              /\ \A k \in UnitKeys(heap, d) :
                    VariantKeys(UnitWithKey(heap', back, k).variants) =
                        VariantKeys(UnitWithKey(heap, d, k).variants)
    ]_vars

(***************************************************************************)
(* C9.  serialize() writes one tu element for each stored unit with at     *)
(* least 2 variants, in unit-list order, with the unit's srclang and one   *)
(* tuv per variant, and none for a unit with fewer than 2 variants.        *)
(***************************************************************************)
C9_SerializeDropsSingleVariantUnits ==
    last.op = "serialize" =>
        LET out == serialize(heap, docs[last.doc]).tus
            kept == SelectSeq(UnitsOf(heap, docs[last.doc]),
                              LAMBDA u : Len(u.variants) >= 2)
        IN /\ Len(out) = Len(kept)
           /\ \A j \in 1..Len(kept) :
                 /\ out[j].srclang = kept[j].sourceLocale
                 /\ [i \in 1..Len(out[j].tuvs) |->
                        Variant(out[j].tuvs[i].locale, out[j].tuvs[i].seg)]
                      = kept[j].variants

\* a document with a single-variant unit and a two-variant unit is serialized
C9_Witness ==
    /\ last.op = "serialize"
    /\ \E i \in 1..Len(docs[last.doc].tu) : Len(heap[docs[last.doc].tu[i]].variants) = 1
    /\ \E i \in 1..Len(docs[last.doc].tu) : Len(heap[docs[last.doc].tu[i]].variants) >= 2
    /\ Len(serialize(heap, docs[last.doc]).tus) = 1

(***************************************************************************)
(* C10.  deserialize(text) of a text whose root version attribute is not   *)
(* exactly "1.4", or is missing, does not raise and leaves the document as *)
(* it was: units, index, properties, sourceLocale and adminLocale.         *)
(***************************************************************************)
C10_VersionMismatchIsQuietNoOp ==
    [][(/\ last'.op = "deserialize"
        /\ last'.json.root = "tmx"
        /\ ~(last'.json.hasAttrs /\ last'.json.version = <<"1", "4">>))
       => /\ ~last'.raised
          /\ docs' = docs
          /\ heap' = heap
    ]_vars

(***************************************************************************)
(* C11.  No deserialize call leaves the document partially changed: the    *)
(* call either runs to completion, or it fails with the units, the index,  *)
(* the properties and the locales exactly as before the call.              *)
(***************************************************************************)
C11_DeserializeCompletesOrLeavesState ==
    [][(last'.op = "deserialize" /\ last'.raised)
       => /\ docs' = docs
          /\ heap' = heap
    ]_vars

(***************************************************************************)
(* C12.  addResource of a plural resource whose target has a category the  *)
(* source lacks: whatever the document held before, the stored unit of     *)
(* segment i of the source's "other" category holds afterwards a variant   *)
(* in the target locale with segment i of the extra category, and the      *)
(* document has no unit besides the ones it had and the ones of the source *)
(* segments.                                                               *)
(***************************************************************************)
C12_ExtraCategoryOnStoredOtherUnit ==
    [][(/\ last'.op = "addResource"
        /\ last'.res.type = "plural"
        /\ ~last'.raised
        /\ sourceLocaleMatches(docs[last'.doc], last'.res)
        /\ addTarget(docs[last'.doc], last'.res)
        /\ last'.res.hasTarget)
       => LET d == last'.doc
              res == last'.res
              src == segmentPlurals(docs[d], res.source)
              tar == segmentPlurals(docs[d], res.target)
              other == IF HasCategory(src, "other")
                       THEN CategorySegments(src, "other") ELSE <<>>
              key(s) == <<s, res.sourceLocale, res.datatype>>
          IN /\ \A k \in 1..Len(tar) :
                  ~HasCategory(src, tar[k].category)
                  => \A i \in 1..Len(tar[k].segments) :
                        i <= Len(other)
                        => /\ key(other[i]) \in UnitKeys(heap', docs'[d])
                           /\ <<tar[k].segments[i], res.targetLocale>> \in
                                 VariantKeys(UnitWithKey(heap', docs'[d],
                                                         key(other[i])).variants)
             /\ UnitKeys(heap', docs'[d]) =
                   UnitKeys(heap, docs[d]) \cup
                   UNION {{key(src[k].segments[i]) : i \in 1..Len(src[k].segments)} :
                             k \in 1..Len(src)}
    ]_vars

(***************************************************************************)
(* C13.  addResource of a resource whose source locale is not the          *)
(* document's is a silent no-op, for a string, an array and a plural       *)
(* resource: nothing is raised and no unit, variant, index entry or        *)
(* property of any document changes.                                       *)
(***************************************************************************)
C13_ForeignSourceLocaleIsNoOp ==
    [][(/\ last'.op = "addResource"
        /\ last'.res.sourceLocale # docs[last'.doc].sourceLocale)
       => /\ ~last'.raised
          /\ docs' = docs
          /\ heap' = heap
    ]_vars

\* a plural resource of another source locale was handed to a filled document
C13_Witness ==
    /\ last.op = "addResource"
    /\ last.res.type = "plural"
    /\ last.res.sourceLocale # docs[last.doc].sourceLocale
    /\ ~Falsy(last.res.targetLocale)
    /\ Len(docs[last.doc].tu) > 0

(***************************************************************************)
(* C14.  A document constructed with the option sourceLocale S has the     *)
(* admin locale S, whatever S is.                                          *)
(***************************************************************************)
C14_AdminLocaleIsSourceLocaleOption ==
    (last.op = "constructor" /\ ~Falsy(last.options.sourceLocale))
    => docs[last.doc].adminLocale = last.options.sourceLocale

(***************************************************************************)
(* C15.  In every state reached by constructing documents with any options *)
(* and calling addProperty, setProperties and deserialize, the segtype of  *)
(* every document is "paragraph" or "sentence".                            *)
(***************************************************************************)
C15_SegtypeIsParagraphOrSentence ==
    \A d \in Docs : docs[d].properties.segtype \in {"paragraph", "sentence"}

(***************************************************************************)
(* C16.  Calls of addTranslationUnit, addTranslationUnits and addResource  *)
(* only ever add: the unit list of a document before the call is a prefix  *)
(* of its unit list after the call, and the variant list of each stored    *)
(* unit before the call is a prefix of its variant list after it.  Units   *)
(* leave a document only when a deserialize on it succeeds.                *)
(***************************************************************************)
\* document d has, after the step, the units it had, in their order, each
\* with the variants it had, in their order
Grown(d) ==
    /\ IsPrefix(KeyList(heap, docs[d]), KeyList(heap', docs'[d]))
    /\ \A i \in 1..Len(docs[d].tu) :
          i <= Len(docs'[d].tu)
          => IsPrefix(heap[docs[d].tu[i]].variants, heap'[docs'[d].tu[i]].variants)

\* the step puts a newly constructed document where d was
Replaced(d) ==
    \/ last'.op \in {"diff", "merge"} /\ last'.result = d
    \/ last'.op = "constructor" /\ last'.doc = d

AddsOnlyAppend ==
    last'.op \in {"addTranslationUnit", "addTranslationUnits", "addResource"}
    => \A d \in Docs : Grown(d)

OnlyDeserializeRemoves ==
    \A d \in Docs :
        (~Grown(d) /\ ~Replaced(d))
        => /\ last'.op = "deserialize"
           /\ last'.doc = d
           /\ last'.accepted
           /\ ~last'.raised

C16_UnitsAndVariantsOnlyGrow ==
    [][AddsOnlyAppend /\ OnlyDeserializeRemoves]_vars

(***************************************************************************)
(* C17.  The document returned by this.diff(other) is independent of       *)
(* other: a call of addTranslationUnit, addTranslationUnits or addResource *)
(* on the returned document leaves every unit of other with the variant    *)
(* list it had.  The property is stated for the call that follows the      *)
(* diff.                                                                   *)
(***************************************************************************)
C17_DiffResultIndependentOfOther ==
    [][(/\ last.op = "diff"
        /\ last'.op \in {"addTranslationUnit", "addTranslationUnits", "addResource"}
        /\ last'.doc = last.result)
       => UnitsOf(heap', docs'[last.other]) = UnitsOf(heap, docs[last.other])
    ]_vars
====
